---- MODULE Spec2Model ----
\* Model of deepspeech_wrapper (src/src/deepspeech_wrapper.cpp): the per-frame
\* processing step process_buff, the decode step decode_speech and the
\* lifecycle of the backend stream handle.  The engine_wrapper base class
\* (callbacks, input-frame claim, sentence timer, worker loop) is not part of
\* the sources; those operators follow the specification text.
EXTENDS Integers, Sequences, FiniteSets, TLC

\* ---------------------------------------------------------------- bounds
MaxFrame == 1      \* samples in one deposited frame
MaxBuf == 2        \* samples the utterance buffer may hold in the model
MaxStreams == 2    \* stream handles the backend hands out in the model

NULL == 0          \* nullptr
Texts == {"", "a"}
Modes == {"manual", "single_sentence", "automatic"}
Statuses == {"no_speech", "speech_detected", "decoding"}

None == <<>>
Some(t) == <<t>>

\* ---------------------------------------------------------------- state
VARIABLES
    pc,                          \* worker: "init", "running", "failed", "destroyed"
    m_speech_mode,
    m_ds_model,
    m_ds_stream,
    m_speech_buf,
    m_intermediate_text,
    m_speech_detection_status,
    m_speech_started,
    m_thread_exit_requested,
    m_start_time,                \* "unset", "running", "expired"
    m_vad,                       \* "reset", "used"
    m_in_buf,                    \* [buf, sof, eof, filled]
    claimed,                     \* the input frame is claimed for processing
    live,                        \* backend: stream handles created and not released
    model_live,                  \* backend: the model exists
    next_handle,                 \* backend: next fresh stream handle
    last                         \* what the last operation did (observation only)

vars == <<pc, m_speech_mode, m_ds_model, m_ds_stream, m_speech_buf,
          m_intermediate_text, m_speech_detection_status, m_speech_started,
          m_thread_exit_requested, m_start_time, m_vad, m_in_buf, claimed,
          live, model_live, next_handle, last>>

EmptyFrame == [buf |-> <<>>, sof |-> FALSE, eof |-> FALSE, filled |-> FALSE]

\* The record of one operation: the backend calls and callbacks it made and
\* the values process_buff computed on the way.  prev_vad ("none", "speech",
\* "silence") and prev_timeout describe the step before it; after_sof is the
\* state a sof frame leaves before the VAD runs; scen lists, for the frames of
\* a manual-mode run [sof+speech, speech, silence, eof] seen so far, the status
\* after the frame and the decode calls it made.
NoTrace(op, prev_vad, prev_timeout) ==
    [op |-> op, sof |-> FALSE, eof |-> FALSE, vad_status |-> FALSE,
     prev_vad |-> prev_vad, prev_timeout |-> prev_timeout, exit_seen |-> FALSE, reached_decode |-> FALSE,
     final_decode |-> FALSE, threw |-> FALSE, calls |-> <<>>, cbs |-> <<>>,
     stream_pre |-> NULL, text_pre |-> None, text_post |-> None,
     buf_decode |-> <<>>, vad_buf |-> <<>>, old_status |-> "no_speech",
     after_sof |-> <<>>, scen |-> <<>>]

TimeoutFired(tr) == \E i \in 1..Len(tr.cbs) : tr.cbs[i].cb = "sentence_timeout"

\* The engine as one record, so that the methods are operators on it.
Cur(op) ==
    [m_speech_mode |-> m_speech_mode, m_ds_model |-> m_ds_model,
     m_ds_stream |-> m_ds_stream, m_speech_buf |-> m_speech_buf,
     m_intermediate_text |-> m_intermediate_text,
     m_speech_detection_status |-> m_speech_detection_status,
     m_speech_started |-> m_speech_started,
     m_thread_exit_requested |-> m_thread_exit_requested,
     m_start_time |-> m_start_time, m_vad |-> m_vad, m_in_buf |-> m_in_buf,
     claimed |-> claimed, live |-> live, model_live |-> model_live,
     next_handle |-> next_handle,
     tr |-> [(IF last.op = "step"
              THEN NoTrace(op, IF last.vad_status THEN "speech" ELSE "silence",
                           TimeoutFired(last))
              ELSE NoTrace(op, last.prev_vad, last.prev_timeout))
             EXCEPT !.scen = IF op = "reset" THEN <<>> ELSE last.scen]]

Install(e) ==
    /\ m_ds_model' = e.m_ds_model
    /\ m_ds_stream' = e.m_ds_stream
    /\ m_speech_buf' = e.m_speech_buf
    /\ m_intermediate_text' = e.m_intermediate_text
    /\ m_speech_detection_status' = e.m_speech_detection_status
    /\ m_speech_started' = e.m_speech_started
    /\ m_thread_exit_requested' = e.m_thread_exit_requested
    /\ m_start_time' = e.m_start_time
    /\ m_vad' = e.m_vad
    /\ m_in_buf' = e.m_in_buf
    /\ claimed' = e.claimed
    /\ live' = e.live
    /\ model_live' = e.model_live
    /\ next_handle' = e.next_handle
    /\ last' = e.tr
    /\ UNCHANGED m_speech_mode

\* ------------------------------------------------------- backend (ds api)
\* A call on a stream handle: data is what was passed in (feed_audio) or what
\* came back (the decoded text); ok records whether the handle was a live
\* stream when the call was made.
Call(e, op, h, data) == [op |-> op, h |-> h, data |-> data, ok |-> h \in e.live]

Logged(e, c) == [e EXCEPT !.tr.calls = Append(@, c)]

Callback(e, cb, v) == [e EXCEPT !.tr.cbs = Append(@, [cb |-> cb, v |-> v])]

\* --------------------------------------------- engine_wrapper (base class)
set_speech_detection_status(e, status) ==
    IF e.m_speech_detection_status = status THEN e
    ELSE Callback([e EXCEPT !.m_speech_detection_status = status],
                  "speech_detection_status_changed", status)

set_intermediate_text(e, text) ==
    Callback([e EXCEPT !.m_intermediate_text = Some(text)],
             "intermediate_text", text)

flush(e, kind) ==
    [Callback(e, "flush", kind) EXCEPT !.m_intermediate_text = None]

restart_sentence_timer(e) == [e EXCEPT !.m_start_time = "running"]

sentence_timer_timed_out(e) == e.m_start_time = "expired"

lock_buff_for_processing(e) == e.m_in_buf.filled /\ ~e.claimed

in_buf_clear(e) == [e EXCEPT !.m_in_buf = EmptyFrame]

free_buf(e) == [in_buf_clear(e) EXCEPT !.claimed = FALSE]

\* The outputs remove_silence may give for a sample block: nothing, or a
\* contiguous span of it.
VadResults(buf) ==
    {<<>>} \cup {SubSeq(buf, i, j) : i \in 1..Len(buf), j \in 1..Len(buf)}

\* ------------------------------------------------------ deepspeech_wrapper
create_ds_model(e, ok) ==
    IF e.m_ds_model # NULL THEN e
    ELSE IF ok
         THEN [Logged(e, Call(e, "create_model", NULL, <<>>))
                  EXCEPT !.m_ds_model = 1, !.model_live = TRUE]
         ELSE [Logged(e, Call(e, "create_model", NULL, <<>>))
                  EXCEPT !.tr.threw = TRUE]

start_processing_impl(e, ok) == create_ds_model(e, ok)

\* free_ds_stream that frees the stream and keeps the stale pointer.
free_ds_stream_dangling(e) ==
    IF e.m_ds_stream # NULL
    THEN [Logged(e, Call(e, "free_stream", e.m_ds_stream, <<>>))
             EXCEPT !.live = @ \ {e.m_ds_stream}]
    ELSE e

free_ds_stream(e) ==
    IF e.m_ds_stream # NULL
    THEN [Logged(e, Call(e, "free_stream", e.m_ds_stream, <<>>))
             EXCEPT !.live = @ \ {e.m_ds_stream}, !.m_ds_stream = NULL]
    ELSE e

\* create_ds_stream that returns instead of throwing when creation fails.
create_ds_stream_silent(e, ok) ==
    IF e.m_ds_stream # NULL \/ e.m_ds_model = NULL THEN e
    ELSE IF ok
         THEN [Logged(e, Call(e, "create_stream", e.next_handle, <<>>))
                  EXCEPT !.m_ds_stream = e.next_handle,
                         !.live = @ \cup {e.next_handle},
                         !.next_handle = @ + 1]
         ELSE Logged(e, Call(e, "create_stream", NULL, <<>>))

create_ds_stream(e, ok) ==
    IF e.m_ds_stream # NULL \/ e.m_ds_model = NULL THEN e
    ELSE IF ok
         THEN [Logged(e, Call(e, "create_stream", e.next_handle, <<>>))
                  EXCEPT !.m_ds_stream = e.next_handle,
                         !.live = @ \cup {e.next_handle},
                         !.next_handle = @ + 1]
         ELSE [Logged(e, Call(e, "create_stream", NULL, <<>>))
                  EXCEPT !.tr.threw = TRUE]

\* reset_impl that clears the buffer and leaves the stream open.
reset_impl_keeps_stream(e) == [e EXCEPT !.m_speech_buf = <<>>]

reset_impl(e) == free_ds_stream([e EXCEPT !.m_speech_buf = <<>>])

\* engine_wrapper::reset: the recovery action of the specification.
reset(e) ==
    reset_impl([e EXCEPT !.m_intermediate_text = None,
                         !.m_start_time = "unset",
                         !.m_vad = "reset"])

\* decode_speech without the comparison with the stored text.
decode_speech_always_emits(e, buf, eof, ok, text) ==
    IF e.m_ds_stream = NULL /\ eof THEN e
    ELSE
      LET e1 == create_ds_stream(e, ok) IN
      IF e1.tr.threw THEN e1
      ELSE
        LET e2 == Logged(e1, Call(e1, "feed_audio", e1.m_ds_stream, buf))
            e3 == IF ~eof
                  THEN Logged(e2, Call(e2, "intermediate_decode", e2.m_ds_stream, Some(text)))
                  ELSE [Logged(e2, Call(e2, "finish_stream", e2.m_ds_stream, Some(text)))
                           EXCEPT !.live = @ \ {e2.m_ds_stream},
                                  !.m_ds_stream = NULL]
        IN set_intermediate_text(e3, text)

\* decode_speech without the lazy create_ds_stream of line 233.
decode_speech_no_lazy_create(e, buf, eof, ok, text) ==
    IF e.m_ds_stream = NULL /\ eof THEN e
    ELSE
      LET e2 == Logged(e, Call(e, "feed_audio", e.m_ds_stream, buf))
          e3 == IF ~eof
                THEN Logged(e2, Call(e2, "intermediate_decode", e2.m_ds_stream, Some(text)))
                ELSE [Logged(e2, Call(e2, "finish_stream", e2.m_ds_stream, Some(text)))
                         EXCEPT !.live = @ \ {e2.m_ds_stream},
                                !.m_ds_stream = NULL]
      IN IF e3.m_intermediate_text = None \/ e3.m_intermediate_text # Some(text)
         THEN set_intermediate_text(e3, text)
         ELSE e3

\* decode_speech without the early return of line 229.
decode_speech_no_guard(e, buf, eof, ok, text) ==
    LET e1 == create_ds_stream(e, ok) IN
    IF e1.tr.threw THEN e1
    ELSE
      LET e2 == Logged(e1, Call(e1, "feed_audio", e1.m_ds_stream, buf))
          e3 == IF ~eof
                THEN Logged(e2, Call(e2, "intermediate_decode", e2.m_ds_stream, Some(text)))
                ELSE [Logged(e2, Call(e2, "finish_stream", e2.m_ds_stream, Some(text)))
                         EXCEPT !.live = @ \ {e2.m_ds_stream},
                                !.m_ds_stream = NULL]
      IN IF e3.m_intermediate_text = None \/ e3.m_intermediate_text # Some(text)
         THEN set_intermediate_text(e3, text)
         ELSE e3

decode_speech(e, buf, eof, ok, text) ==
    IF e.m_ds_stream = NULL /\ eof THEN e
    ELSE
      LET e1 == create_ds_stream(e, ok) IN
      IF e1.tr.threw THEN e1
      ELSE
        LET e2 == Logged(e1, Call(e1, "feed_audio", e1.m_ds_stream, buf))
            e3 == IF ~eof
                  THEN Logged(e2, Call(e2, "intermediate_decode", e2.m_ds_stream, Some(text)))
                  ELSE [Logged(e2, Call(e2, "finish_stream", e2.m_ds_stream, Some(text)))
                           EXCEPT !.live = @ \ {e2.m_ds_stream},
                                  !.m_ds_stream = NULL]
        IN IF e3.m_intermediate_text = None \/ e3.m_intermediate_text # Some(text)
           THEN set_intermediate_text(e3, text)
           ELSE e3

\* final_decode that takes silence for the end of the utterance in every mode.
final_decode_on_silence(e, eof, vad_status) == eof \/ ~vad_status

\* final_decode that takes an empty IntermediateText for a transcript.
final_decode_any_text(e, eof, vad_status) ==
    IF eof THEN TRUE
    ELSE IF /\ e.m_speech_mode = "single_sentence"
            /\ e.m_intermediate_text # None
            /\ ~vad_status
         THEN TRUE
    ELSE IF e.m_speech_mode = "automatic" /\ ~vad_status THEN TRUE
    ELSE FALSE

\* final_decode with the automatic-mode rule left out.
final_decode_eof_only(e, eof, vad_status) ==
    IF eof THEN TRUE
    ELSE IF /\ e.m_speech_mode = "single_sentence"
            /\ e.m_intermediate_text # None
            /\ e.m_intermediate_text # Some("")
            /\ ~vad_status
         THEN TRUE
    ELSE FALSE

final_decode_fn(e, eof, vad_status) ==
    IF eof THEN TRUE
    ELSE IF /\ e.m_speech_mode = "single_sentence"
            /\ e.m_intermediate_text # None
            /\ e.m_intermediate_text # Some("")
            /\ ~vad_status
         THEN TRUE
    ELSE IF e.m_speech_mode = "automatic" /\ ~vad_status THEN TRUE
    ELSE FALSE

\* The sof branch without the clear of the utterance buffer.
on_sof_keeps_buf(e, ok) ==
    create_ds_stream(
        free_ds_stream([e EXCEPT !.m_start_time = "unset",
                                 !.m_vad = "reset"]), ok)

\* process_buff, lines 144-151: a start-of-frame marker.
on_sof(e, ok) ==
    create_ds_stream(
        free_ds_stream([e EXCEPT !.m_speech_buf = <<>>,
                                 !.m_start_time = "unset",
                                 !.m_vad = "reset"]), ok)

\* The VAD branch without the status change on speech.
on_vad_no_status(e, vad_buf) ==
    IF vad_buf # <<>>
    THEN restart_sentence_timer(
             [e EXCEPT !.m_speech_buf = e.m_speech_buf \o vad_buf])
    ELSE IF /\ e.m_speech_mode = "single_sentence"
            /\ e.m_speech_buf = <<>>
            /\ (e.m_intermediate_text = None \/ e.m_intermediate_text = Some(""))
            /\ sentence_timer_timed_out(e)
         THEN Callback(e, "sentence_timeout", "")
         ELSE e

\* process_buff, lines 162-183: the VAD branch.
on_vad(e, vad_buf) ==
    IF vad_buf # <<>>
    THEN LET e1 == IF e.m_speech_mode # "manual"
                   THEN set_speech_detection_status(e, "speech_detected")
                   ELSE e
         IN restart_sentence_timer(
                [e1 EXCEPT !.m_speech_buf = e1.m_speech_buf \o vad_buf])
    ELSE IF /\ e.m_speech_mode = "single_sentence"
            /\ e.m_speech_buf = <<>>
            /\ (e.m_intermediate_text = None \/ e.m_intermediate_text = Some(""))
            /\ sentence_timer_timed_out(e)
         THEN Callback(e, "sentence_timeout", "")
         ELSE e

\* The decode without the status change after a final decode.
on_decode_keeps_status(e, eof, vad_status, ok, text) ==
    LET final_decode == final_decode_fn(e, eof, vad_status)
        old_status == e.m_speech_detection_status
        e1 == IF final_decode /\ e.m_speech_mode # "automatic"
              THEN set_speech_detection_status(e, "decoding")
              ELSE e
        e2 == [e1 EXCEPT !.tr.reached_decode = TRUE,
                         !.tr.final_decode = final_decode,
                         !.tr.old_status = old_status,
                         !.tr.stream_pre = e1.m_ds_stream,
                         !.tr.text_pre = e1.m_intermediate_text,
                         !.tr.buf_decode = e1.m_speech_buf]
        e3 == decode_speech(e2, e2.m_speech_buf, final_decode, ok, text)
    IN IF e3.tr.threw THEN e3
       ELSE
         LET e4 == [e3 EXCEPT !.m_speech_buf = <<>>,
                              !.tr.text_post = e3.m_intermediate_text]
             e6 == IF final_decode
                   THEN flush(e4, IF ~eof /\ e4.m_speech_mode = "automatic"
                                  THEN "regular" ELSE "eof")
                   ELSE e4
         IN free_buf(e6)

\* process_buff, lines 190-225: the decode and what follows it.
on_decode(e, eof, vad_status, ok, text) ==
    LET final_decode == final_decode_fn(e, eof, vad_status)
        old_status == e.m_speech_detection_status
        e1 == IF final_decode /\ e.m_speech_mode # "automatic"
              THEN set_speech_detection_status(e, "decoding")
              ELSE e
        e2 == [e1 EXCEPT !.tr.reached_decode = TRUE,
                         !.tr.final_decode = final_decode,
                         !.tr.old_status = old_status,
                         !.tr.stream_pre = e1.m_ds_stream,
                         !.tr.text_pre = e1.m_intermediate_text,
                         !.tr.buf_decode = e1.m_speech_buf]
        e3 == decode_speech(e2, e2.m_speech_buf, final_decode, ok, text)
    IN IF e3.tr.threw THEN e3
       ELSE
         LET e4 == [e3 EXCEPT !.m_speech_buf = <<>>,
                              !.tr.text_post = e3.m_intermediate_text]
             e5 == IF final_decode \/
                      (e4.m_speech_mode = "manual" /\ ~e4.m_speech_started)
                   THEN set_speech_detection_status(e4, "no_speech")
                   ELSE set_speech_detection_status(e4, old_status)
             e6 == IF final_decode
                   THEN flush(e5, IF ~eof /\ e5.m_speech_mode = "automatic"
                                  THEN "regular" ELSE "eof")
                   ELSE e5
         IN free_buf(e6)

\* The state right after the sof branch, kept for observation.
Snapshot(e) ==
    [e EXCEPT !.tr.after_sof =
        <<[m_speech_buf |-> e.m_speech_buf, m_start_time |-> e.m_start_time,
           m_vad |-> e.m_vad, m_ds_stream |-> e.m_ds_stream, live |-> e.live]>>]

\* A step that never looks at the shutdown flag.
exit_ignored(e) == FALSE

\* process_buff, line 185: the shutdown flag as the step reads it.
exit_requested(e) == e.m_thread_exit_requested

process_buff(e, vad_buf, ok, text) ==
    IF ~lock_buff_for_processing(e) THEN [e EXCEPT !.tr.op = "wait"]
    ELSE
      LET eof == e.m_in_buf.eof
          sof == e.m_in_buf.sof
          vad_status == vad_buf # <<>>
          e0 == [e EXCEPT !.claimed = TRUE, !.tr.sof = sof, !.tr.eof = eof]
          e1 == IF sof THEN Snapshot(on_sof(e0, ok)) ELSE e0
      IN IF e1.tr.threw THEN e1
         ELSE
           LET e2 == in_buf_clear([e1 EXCEPT !.m_vad = "used",
                                            !.tr.vad_status = vad_status,
                                            !.tr.vad_buf = vad_buf])
               e3 == on_vad(e2, vad_buf)
           IN IF exit_requested(e3)
              THEN free_buf([e3 EXCEPT !.tr.exit_seen = TRUE])
              ELSE on_decode(e3, eof, vad_status, ok, text)

\* A destructor that drops the stream pointer without freeing the stream.
destructor_leaks_stream(e) ==
    LET e1 == [e EXCEPT !.m_thread_exit_requested = TRUE, !.m_ds_stream = NULL]
        e4 == IF e1.m_ds_model # NULL
              THEN [Logged(e1, Call(e1, "free_model", NULL, <<>>))
                       EXCEPT !.model_live = FALSE]
              ELSE e1
    IN [e4 EXCEPT !.m_ds_model = NULL]

\* ~deepspeech_wrapper, lines 26-44.
destructor(e) ==
    LET e1 == [e EXCEPT !.m_thread_exit_requested = TRUE]
        e2 == IF e1.m_ds_stream # NULL
              THEN [Logged(e1, Call(e1, "free_stream", e1.m_ds_stream, <<>>))
                       EXCEPT !.live = @ \ {e1.m_ds_stream}]
              ELSE e1
        e3 == [e2 EXCEPT !.m_ds_stream = NULL]
        e4 == IF e3.m_ds_model # NULL
              THEN [Logged(e3, Call(e3, "free_model", NULL, <<>>))
                       EXCEPT !.model_live = FALSE]
              ELSE e3
    IN [e4 EXCEPT !.m_ds_model = NULL]

\* ---------------------------------------------------------------- actions
Init ==
    /\ pc = "init"
    /\ m_speech_mode \in Modes
    /\ m_ds_model = NULL
    /\ m_ds_stream = NULL
    /\ m_speech_buf = <<>>
    /\ m_intermediate_text = None
    /\ m_speech_detection_status = "no_speech"
    /\ m_speech_started = FALSE
    /\ m_thread_exit_requested = FALSE
    /\ m_start_time = "unset"
    /\ m_vad = "reset"
    /\ m_in_buf = EmptyFrame
    /\ claimed = FALSE
    /\ live = {}
    /\ model_live = FALSE
    /\ next_handle = 1
    /\ last = NoTrace("init", "none", FALSE)

\* The sample blocks the producer deposits: sample i of a block is i.
Frames == {[i \in 1..n |-> i] : n \in 0..MaxFrame}

\* The worker thread starts: the model is created before the first step.
StartProcessing ==
    /\ pc = "init"
    /\ \E ok \in BOOLEAN :
         LET r == start_processing_impl(Cur("start"), ok)
         IN /\ Install(r)
            /\ pc' = IF r.tr.threw THEN "failed" ELSE "running"

\* Follows a manual-mode run [sof+speech, speech, silence, eof] in which the
\* host has not marked speech as started: a step that continues the run adds
\* its status and decode calls, any other step ends it.
Monitor(r) ==
    LET t == r.tr
        n == Len(t.scen)
        done == t.reached_decode /\ ~t.threw
        entry == [st |-> r.m_speech_detection_status,
                  dec |-> [i \in 1..Len(SelectSeq(t.calls, LAMBDA c :
                               c.op \in {"intermediate_decode", "finish_stream"}))
                           |-> SelectSeq(t.calls, LAMBDA c :
                               c.op \in {"intermediate_decode", "finish_stream"})[i].op]]
        fits == \/ n = 1 /\ ~t.sof /\ t.vad_status /\ ~t.eof
                \/ n = 2 /\ ~t.sof /\ ~t.vad_status /\ ~t.eof
                \/ n = 3 /\ ~t.sof /\ ~t.vad_status /\ t.eof
        manual == r.m_speech_mode = "manual" /\ ~r.m_speech_started
    IN IF t.op # "step" THEN r
       ELSE IF manual /\ done /\ fits
            THEN [r EXCEPT !.tr.scen = Append(t.scen, entry)]
       ELSE IF manual /\ done /\ t.sof /\ t.vad_status /\ ~t.eof
            THEN [r EXCEPT !.tr.scen = <<entry>>]
       ELSE [r EXCEPT !.tr.scen = <<>>]

\* One call of process_buff by the worker.
ProcessBuff ==
    /\ pc = "running"
    /\ \E vad_buf \in VadResults(m_in_buf.buf), ok \in BOOLEAN, text \in Texts :
         LET r == Monitor(process_buff(Cur("step"), vad_buf, ok, text))
         IN /\ r.next_handle <= MaxStreams + 1
            /\ Len(r.m_speech_buf) <= MaxBuf
            /\ Install(r)
            /\ pc' = IF r.tr.threw THEN "failed" ELSE "running"

\* A deposit that does not look at the claim.
DepositIgnoresClaim ==
    /\ pc # "destroyed"
    /\ \E buf \in Frames, sof \in BOOLEAN, eof \in BOOLEAN :
         Install([Cur("deposit") EXCEPT
                    !.m_in_buf = [buf |-> buf, sof |-> sof, eof |-> eof,
                                  filled |-> TRUE]])
    /\ UNCHANGED pc

\* The producer deposits a frame.
Deposit ==
    /\ pc # "destroyed"
    /\ ~claimed
    /\ ~m_in_buf.filled
    /\ \E buf \in Frames, sof \in BOOLEAN, eof \in BOOLEAN :
         Install([Cur("deposit") EXCEPT
                    !.m_in_buf = [buf |-> buf, sof |-> sof, eof |-> eof,
                                  filled |-> TRUE]])
    /\ UNCHANGED pc

\* The host asks the worker to stop.
RequestExit ==
    /\ pc # "destroyed"
    /\ ~m_thread_exit_requested
    /\ Install([Cur("request_exit") EXCEPT !.m_thread_exit_requested = TRUE])
    /\ UNCHANGED pc

\* The host calls reset, between two steps of the worker.
Reset ==
    /\ pc # "destroyed"
    /\ Install(reset(Cur("reset")))
    /\ UNCHANGED pc

\* The host marks the start or the end of speech (manual mode).
SetSpeechStarted ==
    /\ pc # "destroyed"
    /\ m_speech_mode = "manual"
    /\ Install([Cur("speech_started") EXCEPT !.m_speech_started = ~m_speech_started])
    /\ UNCHANGED pc

\* Time passes beyond the sentence timeout.
Tick ==
    /\ pc # "destroyed"
    /\ m_start_time = "running"
    /\ Install([Cur("tick") EXCEPT !.m_start_time = "expired"])
    /\ UNCHANGED pc

Destroy ==
    /\ pc # "destroyed"
    /\ Install(destructor(Cur("destroy")))
    /\ pc' = "destroyed"

Next ==
    \/ StartProcessing
    \/ ProcessBuff
    \/ Deposit
    \/ RequestExit
    \/ Reset
    \/ SetSpeechStarted
    \/ Tick
    \/ Destroy

Spec == Init /\ [][Next]_vars

TypeOK ==
    /\ pc \in {"init", "running", "failed", "destroyed"}
    /\ m_ds_stream \in 0..MaxStreams
    /\ Len(m_speech_buf) <= MaxBuf
    /\ m_speech_detection_status \in Statuses

\* ----------------------------------------------------------- observations
DecodeOps == {"feed_audio", "intermediate_decode", "finish_stream"}

CallsOf(tr, ops) == SelectSeq(tr.calls, LAMBDA c : c.op \in ops)

CbsOf(tr, cb) == SelectSeq(tr.cbs, LAMBDA c : c.cb = cb)

Cleared(text) == text = None \/ text = Some("")

\* The last operation was a process_buff step that claimed a frame.
Stepped == last.op = "step"

\* ------------------------------------------------------------------ claims

\* C1 (as stated): in automatic mode a step with silence that follows a step
\* with speech makes exactly one final decode and exactly one flush, regular
\* when eof is false and eof when it is true; a silent step that follows a
\* silent step makes no regular flush.
C1_OneFlushPerTransition ==
    (Stepped /\ m_speech_mode = "automatic" /\ ~last.vad_status /\ ~last.threw) =>
        /\ last.prev_vad = "speech" =>
             /\ Len(CallsOf(last, {"finish_stream"})) = 1
             /\ CbsOf(last, "flush") =
                  <<[cb |-> "flush", v |-> IF last.eof THEN "eof" ELSE "regular"]>>
        /\ last.prev_vad = "silence" =>
             \A i \in 1..Len(last.cbs) :
                 ~(last.cbs[i].cb = "flush" /\ last.cbs[i].v = "regular")

\* C1 (amended): in automatic mode every step that sees silence and reaches
\* the decode computes final_decode = true and makes exactly one flush, regular
\* when eof is false and eof when it is true, whether or not speech came
\* before; finish_stream is called once when a session is open and not at all
\* when none is.
C1_FlushOnEverySilentStep ==
    (Stepped /\ m_speech_mode = "automatic" /\ ~last.vad_status
        /\ last.reached_decode) =>
        /\ last.final_decode
        /\ ~last.threw
        /\ CbsOf(last, "flush") =
             <<[cb |-> "flush", v |-> IF last.eof THEN "eof" ELSE "regular"]>>
        /\ Len(CallsOf(last, {"finish_stream"})) =
             (IF last.stream_pre # NULL THEN 1 ELSE 0)

C1_Witness ==
    /\ Stepped /\ m_speech_mode = "automatic"
    /\ last.prev_vad = "speech" /\ ~last.vad_status /\ ~last.eof
    /\ last.reached_decode /\ last.stream_pre # NULL
    /\ Len(CallsOf(last, {"finish_stream"})) = 1

\* C2 (as stated): in single_sentence mode the sentence_timeout callback does
\* not fire in a step when it already fired in the step before it (no speech
\* was detected in between).
C2_TimeoutOncePerIdlePeriod ==
    ~(Stepped /\ m_speech_mode = "single_sentence"
        /\ TimeoutFired(last) /\ last.prev_timeout)

\* C3: decode_speech passes the decoded string to set_intermediate_text only
\* when no text is stored or the stored text differs from it; a decode that
\* returns the stored string makes no callback.
C3_TextCallbackOnlyOnChange ==
    Stepped =>
        LET dec == CallsOf(last, {"intermediate_decode", "finish_stream"})
        IN /\ Len(dec) <= 1
           /\ CbsOf(last, "intermediate_text") =
                (IF dec # <<>> /\ (last.text_pre = None \/ last.text_pre # dec[1].data)
                 THEN <<[cb |-> "intermediate_text", v |-> dec[1].data[1]]>>
                 ELSE <<>>)

C3_Witness ==
    /\ Stepped
    /\ last.text_pre = Some("a")
    /\ \E i \in 1..Len(last.calls) :
         /\ last.calls[i].op = "intermediate_decode"
         /\ last.calls[i].data = Some("a")
    /\ CbsOf(last, "intermediate_text") = <<>>

\* The fields of the engine a caller can observe (the record of the
\* operation left out).
Obs(e) == [e EXCEPT !.tr = <<>>]

\* C4: from every reachable state, reset followed by reset leaves the state
\* that one reset leaves, and that state has an empty utterance buffer, no
\* stream and no intermediate text.
C4_ResetIdempotent ==
    LET once == reset(Cur("reset"))
        twice == reset([once EXCEPT !.tr = Cur("reset").tr])
    IN /\ Obs(twice) = Obs(once)
       /\ once.m_speech_buf = <<>>
       /\ once.m_ds_stream = NULL
       /\ once.live = {}
       /\ once.m_intermediate_text = None
       /\ last.op = "reset" =>
            /\ Obs(once) = Obs(Cur("reset"))
            /\ m_speech_buf = <<>> /\ m_ds_stream = NULL
            /\ m_intermediate_text = None

C4_Witness ==
    /\ last.op = "reset"
    /\ CallsOf(last, {"free_stream"}) # <<>>
    /\ Obs(reset(Cur("reset"))) = Obs(Cur("reset"))

C6_TextClearedWithSession ==
    /\ (pc # "destroyed" /\ m_ds_stream = NULL) => Cleared(m_intermediate_text)
    /\ (Stepped /\ last.sof /\ CallsOf(last, {"free_stream"}) # <<>>) =>
         Cleared(IF last.reached_decode THEN last.text_pre
                 ELSE m_intermediate_text)
    /\ (CallsOf(last, {"finish_stream"}) # <<>>
          \/ (last.op = "reset" /\ CallsOf(last, {"free_stream"}) # <<>>)) =>
         Cleared(m_intermediate_text)

\* C7: a step that finds the shutdown requested releases the frame and makes
\* no feed_audio, intermediate_decode or finish_stream call and no flush or
\* intermediate-text callback; every step taken while the request stands
\* finds it.
C7_NoDecodeAfterShutdown ==
    /\ (Stepped /\ m_thread_exit_requested /\ ~last.threw) => last.exit_seen
    /\ (Stepped /\ last.exit_seen) =>
         /\ ~last.reached_decode
         /\ CallsOf(last, DecodeOps) = <<>>
         /\ CbsOf(last, "flush") = <<>>
         /\ CbsOf(last, "intermediate_text") = <<>>
         /\ ~claimed
         /\ m_in_buf = EmptyFrame

C7_Witness ==
    /\ Stepped /\ last.exit_seen /\ last.vad_status
    /\ m_speech_buf # <<>>
    /\ m_ds_stream # NULL

\* C8: a final decode with no stream makes no create_stream, feed_audio,
\* intermediate_decode or finish_stream call, creates no stream and leaves
\* IntermediateText as it was.
C8_FinalDecodeWithoutSessionIsNoOp ==
    (Stepped /\ last.reached_decode /\ last.final_decode /\ last.stream_pre = NULL) =>
        /\ ~last.threw
        /\ CallsOf(last, DecodeOps \cup {"create_stream"}) = <<>>
        /\ CbsOf(last, "intermediate_text") = <<>>
        /\ last.text_post = last.text_pre
        /\ m_ds_stream = NULL
        /\ live = {}

C8_Witness ==
    /\ Stepped /\ last.reached_decode /\ last.final_decode /\ last.eof
    /\ last.stream_pre = NULL
    /\ next_handle = 1
    /\ last.buf_decode = <<>>
    /\ last.calls = <<>>

\* C9 (as stated): a step that clears the utterance buffer after its decode
\* has fed every sample of the buffer to the backend, once and in order.
C9_EverySampleFedOnce ==
    (Stepped /\ last.reached_decode /\ ~last.threw) =>
        LET fed == CallsOf(last, {"feed_audio"})
        IN IF last.buf_decode = <<>>
           THEN \A i \in 1..Len(fed) : fed[i].data = <<>>
           ELSE Len(fed) = 1 /\ fed[1].data = last.buf_decode /\ fed[1].ok

\* C10: at most one stream is live, the engine's handle is the live one, and
\* every call on a stream is made on a stream that is live at that moment:
\* a handle released by finish_stream or free_stream is never used again.
C10_OneSessionNeverReused ==
    /\ Cardinality(live) <= 1
    /\ m_ds_stream # NULL => live = {m_ds_stream}
    /\ \A i \in 1..Len(last.calls) :
         last.calls[i].op \in DecodeOps \cup {"free_stream"} => last.calls[i].ok
    /\ \A i \in 1..Len(last.calls) :
         last.calls[i].op = "create_stream" /\ last.calls[i].h # NULL =>
             /\ ~last.calls[i].ok
             /\ \A j \in 1..(i - 1) : last.calls[j].h # last.calls[i].h

C10_Witness ==
    /\ Stepped
    /\ \E i \in 1..Len(last.calls) :
         /\ last.calls[i].op = "feed_audio"
         /\ last.calls[i].h = 2
         /\ last.calls[i].ok
    /\ live = {2}

\* C11 (as stated): between processing steps the utterance buffer is
\* non-empty only if the status is speech_detected or decoding, in every mode.
C11_BufferOnlyWhileSpeech ==
    (pc # "destroyed" /\ m_speech_buf # <<>>) =>
        m_speech_detection_status \in {"speech_detected", "decoding"}

\* C11 (amended): in single_sentence and automatic mode the utterance buffer
\* is non-empty between steps only if the status is speech_detected or
\* decoding.
C11_BufferOnlyWhileSpeechNotManual ==
    (m_speech_mode # "manual" /\ m_speech_buf # <<>>) =>
        m_speech_detection_status \in {"speech_detected", "decoding"}

C11_Witness ==
    /\ m_speech_mode # "manual"
    /\ Stepped /\ last.exit_seen /\ last.vad_status
    /\ m_speech_buf # <<>>
    /\ m_speech_detection_status = "speech_detected"

\* C12: right after the sof branch of a step, before the VAD output is
\* appended, the utterance buffer is empty, the sentence timer and the VAD are
\* reset, the stream the engine had is released and the engine holds a stream
\* created in this step; the buffer the step decodes holds the VAD output of
\* this frame only.
C12_SofStartsClean ==
    (Stepped /\ last.sof /\ last.after_sof # <<>> /\ ~last.threw) =>
        LET a == last.after_sof[1]
            made == CallsOf(last, {"create_stream"})
        IN /\ a.m_speech_buf = <<>>
           /\ a.m_start_time = "unset"
           /\ a.m_vad = "reset"
           /\ Len(made) >= 1 /\ made[1].h = a.m_ds_stream /\ ~made[1].ok
           /\ a.live = {a.m_ds_stream}
           /\ last.reached_decode => last.buf_decode = last.vad_buf
           /\ last.exit_seen => m_speech_buf = last.vad_buf

C12_Witness ==
    /\ Stepped /\ last.sof /\ ~last.threw /\ last.reached_decode
    /\ last.vad_buf # <<>>
    /\ last.calls[1].op = "free_stream"
    /\ last.calls[2].op = "create_stream"
    /\ last.after_sof[1].m_ds_stream = 2

\* The decode calls (intermediate_decode, finish_stream) of the last step.
DecodesOf(tr) ==
    LET d == CallsOf(tr, {"intermediate_decode", "finish_stream"})
    IN [i \in 1..Len(d) |-> d[i].op]

\* C13 (as stated): in manual mode, over the frames [sof+speech, speech,
\* silence, eof] the status after the frames is speech_detected,
\* speech_detected, unchanged, no_speech; the first three frames make one
\* intermediate decode each and the eof frame the only finish_stream.
C13_ManualScenarioStatus ==
    \A i \in 1..Len(last.scen) :
        /\ i \in {1, 2} => last.scen[i].st = "speech_detected"
        /\ i = 3 => last.scen[i].st = last.scen[2].st
        /\ i = 4 => last.scen[i].st = "no_speech"
        /\ last.scen[i].dec =
             (IF i = 4 THEN <<"finish_stream">> ELSE <<"intermediate_decode">>)

\* C13 (amended): in manual mode with speech not marked as started, over the
\* frames [sof+speech, speech, silence, eof] the status after every frame is
\* no_speech, the first three frames make one intermediate decode each and
\* the eof frame the only finish_stream; in general a manual-mode step
\* finalizes exactly when its frame has eof, and calls finish_stream then if
\* a stream is open.
C13_ManualFinalizesOnEof ==
    /\ \A i \in 1..Len(last.scen) :
         /\ last.scen[i].st = "no_speech"
         /\ last.scen[i].dec =
              (IF i = 4 THEN <<"finish_stream">> ELSE <<"intermediate_decode">>)
    /\ (Stepped /\ m_speech_mode = "manual" /\ last.reached_decode /\ ~last.threw) =>
         /\ last.final_decode = last.eof
         /\ (last.eof \/ ~m_speech_started) =>
              m_speech_detection_status = "no_speech"
         /\ DecodesOf(last) =
              (IF ~last.eof THEN <<"intermediate_decode">>
               ELSE IF last.stream_pre # NULL THEN <<"finish_stream">>
               ELSE <<>>)

C13_Witness ==
    /\ m_speech_mode = "manual"
    /\ Stepped
    /\ Len(last.scen) = 4
    /\ last.scen[4].dec = <<"finish_stream">>

\* C14: in automatic mode a silent step without eof that follows a step with
\* speech and reaches the decode computes final_decode = true, makes one flush
\* of kind regular, finalizes the stream it found and leaves no stream, an
\* empty utterance buffer and the status no_speech.
C14_AutomaticSilenceEndsUtterance ==
    (Stepped /\ m_speech_mode = "automatic" /\ last.prev_vad = "speech"
        /\ ~last.vad_status /\ ~last.eof /\ last.reached_decode) =>
        /\ last.final_decode
        /\ CbsOf(last, "flush") = <<[cb |-> "flush", v |-> "regular"]>>
        /\ last.stream_pre # NULL => DecodesOf(last) = <<"finish_stream">>
        /\ m_ds_stream = NULL
        /\ live = {}
        /\ m_speech_buf = <<>>
        /\ m_speech_detection_status = "no_speech"
        /\ ~claimed

C14_Witness ==
    /\ Stepped /\ m_speech_mode = "automatic" /\ last.prev_vad = "speech"
    /\ ~last.vad_status /\ ~last.eof /\ last.reached_decode
    /\ last.stream_pre # NULL
    /\ last.old_status = "speech_detected"
    /\ m_speech_detection_status = "no_speech"
    /\ m_ds_stream = NULL

C16_FrameAlwaysReleased ==
    Stepped => (~claimed /\ m_in_buf = EmptyFrame)

\* C17: the final_decode a step computes is true exactly when the frame has
\* eof, or the mode is single_sentence with a non-empty IntermediateText and
\* no speech in the step, or the mode is automatic with no speech in the step.
C17_FinalDecodeTable ==
    (Stepped /\ last.reached_decode) =>
        last.final_decode =
            (\/ last.eof
             \/ /\ m_speech_mode = "single_sentence"
                /\ ~Cleared(last.text_pre)
                /\ ~last.vad_status
             \/ m_speech_mode = "automatic" /\ ~last.vad_status)

C17_Witness ==
    /\ Stepped /\ last.reached_decode
    /\ m_speech_mode = "single_sentence"
    /\ last.text_pre = Some("")
    /\ ~last.vad_status /\ ~last.eof
    /\ ~last.final_decode

\* C18: after a step that went through the decode the status is no_speech
\* if final_decode was true or the mode is manual with speech not started,
\* and otherwise the status the step had right before the decode.
C18_StatusAfterDecode ==
    (Stepped /\ last.reached_decode /\ ~last.threw) =>
        m_speech_detection_status =
            (IF last.final_decode \/ (m_speech_mode = "manual" /\ ~m_speech_started)
             THEN "no_speech" ELSE last.old_status)

C18_Witness ==
    /\ Stepped /\ last.reached_decode /\ ~last.threw
    /\ ~last.final_decode
    /\ last.old_status = "speech_detected"
    /\ m_speech_detection_status = "speech_detected"
    /\ DecodesOf(last) = <<"intermediate_decode">>

\* C19: in automatic mode a step without sof and eof whose frame has speech
\* and that finds no stream creates one inside decode_speech, feeds it the
\* speech of the step and leaves it open.
C19_AutomaticReopensSession ==
    (Stepped /\ m_speech_mode = "automatic" /\ last.vad_status /\ ~last.eof
        /\ last.reached_decode /\ last.stream_pre = NULL /\ ~last.threw) =>
        /\ Len(last.calls) = 3
        /\ last.calls[1].op = "create_stream"
        /\ last.calls[1].h # NULL /\ ~last.calls[1].ok
        /\ last.calls[2] = [op |-> "feed_audio", h |-> last.calls[1].h,
                            data |-> last.buf_decode, ok |-> TRUE]
        /\ last.calls[3].op = "intermediate_decode"
        /\ last.calls[3].h = last.calls[1].h /\ last.calls[3].ok
        /\ last.vad_buf # <<>> /\ m_speech_buf = <<>>
        /\ m_ds_stream = last.calls[1].h
        /\ live = {m_ds_stream}

C19_Witness ==
    /\ Stepped /\ m_speech_mode = "automatic" /\ last.vad_status /\ ~last.eof
    /\ ~last.sof /\ last.stream_pre = NULL /\ ~last.threw
    /\ last.prev_vad = "silence"
    /\ m_ds_stream = 2
    /\ last.buf_decode = last.vad_buf

\* C20: every stream is released by one call only (finish_stream or
\* free_stream, made while the stream is live), a stream that is not released
\* is the one the engine holds, and destruction frees the live stream before
\* the model, frees the model at most once and leaves nothing live.
C20_ReleasedExactlyOnce ==
    /\ \A i \in 1..Len(last.calls) :
         last.calls[i].op \in {"free_stream", "finish_stream"} => last.calls[i].ok
    /\ live \subseteq {m_ds_stream}
    /\ NULL \notin live
    /\ pc = "destroyed" =>
         /\ live = {} /\ ~model_live
         /\ m_ds_stream = NULL /\ m_ds_model = NULL
         /\ Len(CallsOf(last, {"free_model"})) <= 1
         /\ \A i, j \in 1..Len(last.calls) :
              (last.calls[i].op = "free_stream" /\ last.calls[j].op = "free_model")
                  => i < j
    /\ pc # "destroyed" => (model_live <=> m_ds_model # NULL)

C20_Witness ==
    /\ pc = "destroyed"
    /\ Len(last.calls) = 2
    /\ last.calls[1].op = "free_stream" /\ last.calls[1].ok
    /\ last.calls[2].op = "free_model"
    /\ next_handle = 3

====
